---------------------------- MODULE Spec2Model ----------------------------
(***************************************************************************)
(* A model of benchpark's scaling engine (lib/benchpark/scaling.py):       *)
(* Scaling.configure_scaling_policy, Scaling.scale_experiment_variables    *)
(* and the Strong / Weak / Throughput selectors that call them.            *)
(*                                                                         *)
(* A Python dict is an insertion-ordered sequence of entries [k, v] with   *)
(* pairwise distinct keys.  A key is a str, a tuple or something else; a   *)
(* value is an int, a list or something else.  Python integers are         *)
(* unbounded, and so are the integers here.                                *)
(***************************************************************************)
EXTENDS Integers, Sequences, FiniteSets, TLC

(***************************************************************************)
(* Bounds of the model.                                                    *)
(***************************************************************************)
MaxDims == 2
MaxExprs == 4

(***************************************************************************)
(* Python values.                                                          *)
(***************************************************************************)
\* "<int>" stands for a tuple element that is not a str
NonStr == "<int>"
StrKey(name) == [t |-> "str", s |-> name, names |-> <<>>]
TupleKey(ns) == [t |-> "tuple", s |-> "", names |-> ns]
\* a key that is neither a str nor a tuple (the int 7, say)
OtherKey == [t |-> "other", s |-> "7", names |-> <<>>]
\* scaling_variable=None, the default of the parameter
NoneKey == [t |-> "none", s |-> "", names |-> <<>>]

IntVal(n) == [t |-> "int", n |-> n, l |-> <<>>, ints |-> TRUE]
\* ints: whether every element is an int (FALSE: a list of floats, say)
ListVal(l, ints) == [t |-> "list", n |-> 0, l |-> l, ints |-> ints]
\* a value that is neither an int nor a list (a str, say)
OtherVal == [t |-> "other", n |-> 0, l |-> <<>>, ints |-> FALSE]

Entry(k, v) == [k |-> k, v |-> v]

\* Python truthiness of a key: None, "" and () are falsy
Truthy(key) ==
    /\ key.t # "none"
    /\ ~(key.t = "str" /\ key.s = "")
    /\ ~(key.t = "tuple" /\ key.names = <<>>)

IsStr(key) == key.t = "str"
IsTupleOfStr(key) == key.t = "tuple" /\ \A i \in DOMAIN key.names : key.names[i] # NonStr
IsInt(v) == v.t = "int"
IsList(v) == v.t = "list"
IsListOfInt(v) == v.t = "list" /\ v.ints

Keys(d) == {d[i].k : i \in DOMAIN d}
HasKey(d, key) == \E i \in DOMAIN d : d[i].k = key
IndexOf(d, key) == CHOOSE i \in DOMAIN d : d[i].k = key
Lookup(d, key) == d[IndexOf(d, key)].v
\* next(iter(d)) of a non-empty dict
FirstKey(d) == d[1].k

DistinctKeys(d) == \A i, j \in DOMAIN d : d[i].k = d[j].k => i = j

RECURSIVE Pow(_, _)
Pow(b, e) == IF e = 0 THEN 1 ELSE b * Pow(b, e - 1)

RECURSIVE Product(_)
Product(s) == IF s = <<>> THEN 1 ELSE Head(s) * Product(Tail(s))

Last(s) == s[Len(s)]

(***************************************************************************)
(* The exceptions the code raises.                                         *)
(***************************************************************************)
NoError == ""
InvalidDriver == "Invalid ordering variable"
TypeStrInt == "Invalid key-value pair. Expected type str->int"
LenMismatch == "Invalid value. Length of key {k} does not match the length of value {v}"
DimMismatch == "Variables to be scaled have different dimensions"
TypeTupleList == "Invalid key-value pair. Expected type tuple(str)->list[int]"
InvalidKey == "Invalid key. Expected type str or tuple(str)"
\* min() of an empty list
ValueError == "ValueError"
\* exp_num % len(scaling_order_index) with an empty scaling order
ZeroDivisionError == "ZeroDivisionError"
\* next(iter({}))
StopIteration == "StopIteration"
\* input_variables[scaling_variable] with an absent key
KeyError == "KeyError"

(***************************************************************************)
(* configure_scaling_policy                                                *)
(***************************************************************************)
ListIndices(d) == {i \in DOMAIN d : IsList(d[i].v)}

\* n_dims: the length of the first list value, 1 when there is none
PolicyNDims(d) ==
    IF ListIndices(d) = {} THEN 1
    ELSE Len(d[CHOOSE i \in ListIndices(d) : \A j \in ListIndices(d) : i <= j].v.l)

\* MinIndex taking the last position of the smallest element
MinIndexLast(l) ==
    (CHOOSE i \in DOMAIN l :
        /\ \A j \in DOMAIN l : l[i] <= l[j]
        /\ \A j \in DOMAIN l : l[j] = l[i] => j <= i) - 1

\* val.index(min(val)), 0-based: the first position of the smallest element
MinIndex(l) ==
    (CHOOSE i \in DOMAIN l :
        /\ \A j \in DOMAIN l : l[i] <= l[j]
        /\ \A j \in DOMAIN l : l[j] = l[i] => i <= j) - 1

MinDim(val) == IF IsList(val) THEN MinIndex(val.l) ELSE 0

PolicyError(d, key) ==
    IF ~HasKey(d, key) THEN KeyError
    ELSE IF IsList(Lookup(d, key)) /\ Lookup(d, key).l = <<>> THEN ValueError
    ELSE NoError

RoundRobin(min_dim, n_dims) == [i \in 1..n_dims |-> (min_dim + (i - 1)) % n_dims]

\* the list the call returns, when PolicyError(d, key) = NoError
configure_scaling_policy(d, key) == RoundRobin(MinDim(Lookup(d, key)), PolicyNDims(d))

(***************************************************************************)
(* scale_experiment_variables: the validation loop                         *)
(***************************************************************************)
\* n_dims = None
NoneDims == -1

\* `not n_dims`
NotNDims(n) == n = NoneDims \/ n = 0

\* one iteration of the loop over input_variables.items(): the exception it
\* raises (NoError when none) and n_dims after it
ValidateEntry(e, n) ==
    IF IsStr(e.k)
    THEN [err |-> IF IsInt(e.v) THEN NoError ELSE TypeStrInt, n |-> n]
    ELSE IF IsTupleOfStr(e.k)
    THEN IF IsListOfInt(e.v)
         THEN IF Len(e.k.names) # Len(e.v.l)
              THEN [err |-> LenMismatch, n |-> n]
              ELSE LET n1 == IF NotNDims(n) THEN Len(e.v.l) ELSE n
                   IN  [err |-> IF Len(e.v.l) # n1 THEN DimMismatch ELSE NoError,
                        n |-> n1]
         ELSE [err |-> TypeTupleList, n |-> n]
    ELSE [err |-> InvalidKey, n |-> n]

(***************************************************************************)
(* scale_experiment_variables: seeding, one experiment, unpacking          *)
(***************************************************************************)
\* [[v] for v in val] if isinstance(val, list) else [[val]]
SeedParam(val) ==
    IF IsList(val) THEN [i \in DOMAIN val.l |-> <<val.l[i]>>] ELSE << <<val.n>> >>

SeedAll(d) == [i \in DOMAIN d |-> SeedParam(d[i].v)]

\* SelectedDim that never advances
SelectedDimFirst(order, exp_num) == order[1]

\* the dimension scaled at experiment exp_num
SelectedDim(order, exp_num) == order[(exp_num % Len(order)) + 1]

\* ScaleParam comparing the 1-based position with the 0-based dimension
ScaleParamOffByOne(param, order, exp_num, factor) ==
    IF Len(param) = 1
    THEN << Append(param[1], Last(param[1]) * factor) >>
    ELSE [p \in DOMAIN param |->
             Append(param[p],
                    IF p = SelectedDim(order, exp_num)
                    THEN Last(param[p]) * factor
                    ELSE Last(param[p]))]

\* ScaleParam without the len(param) == 1 branch: a scalar is scaled only
\* at the experiments that select dimension 0
ScaleParamNoScalarBranch(param, order, exp_num, factor) ==
    [p \in DOMAIN param |->
        Append(param[p],
               IF order # <<>> /\ p - 1 = SelectedDim(order, exp_num)
               THEN Last(param[p]) * factor
               ELSE Last(param[p]))]

\* the body of the loop over scaled_variables.values() for one parameter
ScaleParam(param, order, exp_num, factor) ==
    IF Len(param) = 1
    THEN << Append(param[1], Last(param[1]) * factor) >>
    ELSE [p \in DOMAIN param |->
             Append(param[p],
                    IF p - 1 = SelectedDim(order, exp_num)
                    THEN Last(param[p]) * factor
                    ELSE Last(param[p]))]

\* exp_num % len(scaling_order_index) is evaluated for a parameter with
\* two or more accumulators, and raises when the order is empty
ScaleRaises(sv, order) == order = <<>> /\ \E i \in DOMAIN sv : Len(sv[i]) >= 2

ScaleAll(sv, order, exp_num, factor) ==
    [i \in DOMAIN sv |-> ScaleParam(sv[i], order, exp_num, factor)]

\* Reduce that never reduces
ReduceNever(acc) == ListVal(acc, TRUE)

\* v if len(v) > 1 else v[0]
Reduce(acc) == IF Len(acc) > 1 THEN ListVal(acc, TRUE) ELSE IntVal(acc[1])

\* out[name] = val
Put(out, name, val) ==
    [n \in (DOMAIN out) \cup {name} |-> IF n = name THEN val ELSE out[n]]

RECURSIVE PutComponents(_, _, _, _)
PutComponents(out, names, param, i) ==
    IF i > Len(names) THEN out
    ELSE PutComponents(Put(out, names[i], Reduce(param[i])), names, param, i + 1)

EmptyDict == [n \in {} |-> IntVal(0)]

RECURSIVE UnpackFrom(_, _, _, _)
UnpackFrom(d, sv, i, out) ==
    IF i > Len(d) THEN out
    ELSE UnpackFrom(d, sv, i + 1,
            IF d[i].k.t = "tuple"
            THEN PutComponents(out, d[i].k.names, sv[i], 1)
            ELSE Put(out, d[i].k.s, Reduce(sv[i][1])))

Unpack(d, sv) == UnpackFrom(d, sv, 1, EmptyDict)

(***************************************************************************)
(* WeakScaling.generate_weak_scaling_params: the dict union r | p          *)
(***************************************************************************)
\* DictUnion keeping r's value of a key both have
DictUnionLeft(r, p) == r \o SelectSeq(p, LAMBDA e : ~HasKey(r, e.k))

\* the entries of r, each with p's value when p has the key as well,
\* followed by the entries of p whose keys r does not have
DictUnion(r, p) ==
    [i \in DOMAIN r |-> IF HasKey(p, r[i].k) THEN Entry(r[i].k, Lookup(p, r[i].k)) ELSE r[i]]
    \o SelectSeq(p, LAMBDA e : ~HasKey(r, e.k))


(***************************************************************************)
(* scale_experiment_variables and the selectors as functions of their      *)
(* arguments: what a call returns or raises.                               *)
(***************************************************************************)
Returned(out) == [status |-> "returned", error |-> NoError, output |-> out]
Raised(err) == [status |-> "raised", error |-> err, output |-> EmptyDict]

\* the exception the loop raises from entry i on, NoError when it completes
RECURSIVE ValidateFrom(_, _, _)
ValidateFrom(d, i, n) ==
    IF i > Len(d) THEN NoError
    ELSE LET r == ValidateEntry(d[i], n)
         IN  IF r.err # NoError THEN r.err ELSE ValidateFrom(d, i + 1, r.n)

\* the accumulators after experiments e .. last - 1
RECURSIVE ScaleFrom(_, _, _, _, _)
ScaleFrom(sv, order, e, last, factor) ==
    IF e >= last THEN sv
    ELSE ScaleFrom(ScaleAll(sv, order, e, factor), order, e + 1, last, factor)

SweepValidated(d, factor, count, key) ==
    IF PolicyError(d, key) # NoError THEN Raised(PolicyError(d, key))
    ELSE LET order == configure_scaling_policy(d, key)
         IN  IF count - 1 > 0 /\ ScaleRaises(SeedAll(d), order)
             THEN Raised(ZeroDivisionError)
             ELSE Returned(Unpack(d, ScaleFrom(SeedAll(d), order, 0, count - 1, factor)))

Sweep(d, factor, count, key) ==
    IF d = <<>> THEN Returned(EmptyDict)
    ELSE LET driver == IF ~Truthy(key) THEN FirstKey(d) ELSE key
         IN  IF ~HasKey(d, driver) THEN Raised(InvalidDriver)
             ELSE IF ValidateFrom(d, 1, NoneDims) # NoError
             THEN Raised(ValidateFrom(d, 1, NoneDims))
             ELSE SweepValidated(d, factor, count, driver)

generate_strong_scaling_params(r, factor, count) == Sweep(r, factor, count, NoneKey)

generate_throughput_scaling_params(p, factor, count) == Sweep(p, factor, count, NoneKey)

generate_weak_scaling_params(r, p, factor, count) ==
    IF r = <<>> THEN Raised(StopIteration)
    ELSE Sweep(DictUnion(r, p), factor, count, FirstKey(r))

(***************************************************************************)
(* The arguments the calls are checked on.                                 *)
(***************************************************************************)
ANames == <<"a1", "a2", "a3", "a4">>
BNames == <<"b1", "b2", "b3", "b4">>
Factors == {2, 3}

\* lists of length k: the smallest element at each position in turn, and a
\* list of equal elements
BaseLists(k) ==
    IF k = 0 THEN {<<>>}
    ELSE {[i \in 1..k |-> IF i = p THEN 1 ELSE 2] : p \in 1..k} \cup {[i \in 1..k |-> 2]}

ScalarEntries == {Entry(StrKey("x"), IntVal(3)), Entry(StrKey("y"), IntVal(5))}

AEntries ==
    UNION {{Entry(TupleKey(SubSeq(ANames, 1, k)), ListVal(l, TRUE)) : l \in BaseLists(k)}
           : k \in 0..MaxDims}

BEntries ==
    {Entry(TupleKey(SubSeq(BNames, 1, k)), ListVal([i \in 1..k |-> k - i + 3], TRUE))
     : k \in 1..MaxDims}

\* entries the validation rejects, one for each way
BadEntries ==
    { Entry(StrKey("nodes"), ListVal(<<1, 4>>, TRUE)),
      Entry(StrKey("n"), OtherVal),
      Entry(TupleKey(<<"c1">>), ListVal(<<1, 2>>, TRUE)),
      Entry(TupleKey(<<"c1", "c2">>), ListVal(<<1, 2>>, FALSE)),
      Entry(TupleKey(<<"c1", "c2", "c3">>), IntVal(4)),
      Entry(TupleKey(<<"c1", NonStr>>), ListVal(<<1, 2>>, TRUE)),
      Entry(OtherKey, IntVal(1)) }

Entries == ScalarEntries \cup AEntries \cup BEntries \cup BadEntries

\* the entries of the three-entry dicts: the scalar "x" and the tuples
MixEntries == {Entry(StrKey("x"), IntVal(3))} \cup AEntries \cup BEntries

\* dicts of at most two entries, and dicts of the scalar "x" and two tuples
VariableSets ==
    {<<>>} \cup {<<e>> : e \in Entries}
    \cup {p \in Entries \X Entries : p[1].k # p[2].k}
    \cup {p \in MixEntries \X MixEntries \X MixEntries :
            /\ p[1].k # p[2].k /\ p[1].k # p[3].k /\ p[2].k # p[3].k
            /\ \E i \in 1..3 : p[i].k = StrKey("x")}

\* the problem-size groups of a weak-scaling call: empty, disjoint from the
\* resource group, or sharing the key "x" or ("a1", "a2") with another value
ProblemSets ==
    { <<>>,
      <<Entry(StrKey("x"), IntVal(7)), Entry(StrKey("z"), IntVal(9))>>,
      <<Entry(TupleKey(<<"a1", "a2">>), ListVal(<<6, 5>>, TRUE))>> }

\* drivers: none, the keys of the set, absent keys (one of them falsy)
Drivers(d) ==
    {NoneKey, StrKey("missing"), StrKey(""), TupleKey(<<>>)} \cup Keys(d)

Counts == 0..MaxExprs

(***************************************************************************)
(* The state machine: one call, step by step.                              *)
(***************************************************************************)
VARIABLES
    call,                 \* the caller's arguments
    pc,                   \* the statement about to run
    input_variables,      \* scale_experiment_variables' parameter
    scaling_variable,     \* its scaling_variable, rebound at line 85
    n_dims,               \* the validation loop's n_dims
    pos,                  \* the validation loop's position in the dict
    scaling_order_index,
    scaled_variables,
    exp_num,
    output_variables,
    error                 \* the exception raised, NoError when none

vars == <<call, pc, input_variables, scaling_variable, n_dims, pos,
          scaling_order_index, scaled_variables, exp_num, output_variables, error>>

Call(op, r, p, d, factor, count, key) ==
    [op |-> op, resource_variable |-> r, problem_size_variables |-> p,
     input_variables |-> d, scaling_factor |-> factor, num_exprs |-> count,
     scaling_variable |-> key]

\* the calls checked: each entry point on each of its arguments
IsCall(c) ==
    \E d \in VariableSets :
        \/ \E f \in Factors, n \in Counts, key \in Drivers(d) :
               c = Call("scale_experiment_variables", <<>>, <<>>, d, f, n, key)
        \/ \E key \in Keys(d) \cup {StrKey("missing")} :
               c = Call("configure_scaling_policy", <<>>, <<>>, d, 0, 0, key)
        \/ \E f \in Factors, n \in Counts :
               c = Call("generate_strong_scaling_params", d, <<>>, <<>>, f, n, NoneKey)
        \/ \E f \in Factors, n \in Counts :
               c = Call("generate_throughput_scaling_params", <<>>, d, <<>>, f, n, NoneKey)
        \/ \E f \in Factors, n \in Counts, p \in ProblemSets :
               c = Call("generate_weak_scaling_params", d, p, <<>>, f, n, NoneKey)

scaling_factor == call.scaling_factor
num_exprs == call.num_exprs

Init ==
    /\ IsCall(call)
    /\ pc = call.op
    /\ input_variables = call.input_variables
    /\ scaling_variable = call.scaling_variable
    /\ n_dims = NoneDims
    /\ pos = 0
    /\ scaling_order_index = <<>>
    /\ scaled_variables = <<>>
    /\ exp_num = 0
    /\ output_variables = EmptyDict
    /\ error = NoError

Raise(err) ==
    /\ pc' = "raised"
    /\ error' = err

\* lines 163-168
GenerateStrong ==
    /\ pc = "generate_strong_scaling_params"
    /\ input_variables' = call.resource_variable
    /\ scaling_variable' = NoneKey
    /\ pc' = "scale_experiment_variables"
    /\ UNCHANGED <<call, n_dims, pos, scaling_order_index, scaled_variables,
                   exp_num, output_variables, error>>

\* lines 205-210
GenerateThroughput ==
    /\ pc = "generate_throughput_scaling_params"
    /\ input_variables' = call.problem_size_variables
    /\ scaling_variable' = NoneKey
    /\ pc' = "scale_experiment_variables"
    /\ UNCHANGED <<call, n_dims, pos, scaling_order_index, scaled_variables,
                   exp_num, output_variables, error>>

\* lines 182-191
GenerateWeak ==
    /\ pc = "generate_weak_scaling_params"
    /\ IF call.resource_variable = <<>>
       THEN /\ Raise(StopIteration)
            /\ UNCHANGED <<input_variables, scaling_variable>>
       ELSE /\ scaling_variable' = FirstKey(call.resource_variable)
            /\ input_variables' =
                   DictUnion(call.resource_variable, call.problem_size_variables)
            /\ pc' = "scale_experiment_variables"
            /\ UNCHANGED error
    /\ UNCHANGED <<call, n_dims, pos, scaling_order_index, scaled_variables,
                   exp_num, output_variables>>

\* lines 80-81
CheckEmpty ==
    /\ pc = "scale_experiment_variables"
    /\ IF input_variables = <<>>
       THEN /\ output_variables' = EmptyDict
            /\ pc' = "returned"
       ELSE /\ pc' = "resolve"
            /\ UNCHANGED output_variables
    /\ UNCHANGED <<call, input_variables, scaling_variable, n_dims, pos,
                   scaling_order_index, scaled_variables, exp_num, error>>

\* the driver after lines 84-85
ResolvedDriver(d, key) == IF ~Truthy(key) THEN FirstKey(d) ELSE key

\* lines 84-89
ResolveDriver ==
    /\ pc = "resolve"
    /\ LET driver == ResolvedDriver(input_variables, scaling_variable)
       IN  /\ scaling_variable' = driver
           /\ IF ~HasKey(input_variables, driver)
              THEN /\ Raise(InvalidDriver)
                   /\ UNCHANGED <<n_dims, pos>>
              ELSE /\ n_dims' = NoneDims
                   /\ pos' = 1
                   /\ pc' = "validate"
                   /\ UNCHANGED error
    /\ UNCHANGED <<call, input_variables, scaling_order_index, scaled_variables,
                   exp_num, output_variables>>

\* lines 96-118, one entry
ValidateStep ==
    /\ pc = "validate"
    /\ LET r == ValidateEntry(input_variables[pos], n_dims)
       IN  IF r.err # NoError
           THEN /\ Raise(r.err)
                /\ UNCHANGED <<n_dims, pos>>
           ELSE /\ n_dims' = r.n
                /\ pos' = pos + 1
                /\ pc' = IF pos = Len(input_variables) THEN "policy" ELSE "validate"
                /\ UNCHANGED error
    /\ UNCHANGED <<call, input_variables, scaling_variable, scaling_order_index,
                   scaled_variables, exp_num, output_variables>>

\* lines 121-123
ConfigurePolicy ==
    /\ pc = "policy"
    /\ IF PolicyError(input_variables, scaling_variable) # NoError
       THEN /\ Raise(PolicyError(input_variables, scaling_variable))
            /\ UNCHANGED scaling_order_index
       ELSE /\ scaling_order_index' =
                   configure_scaling_policy(input_variables, scaling_variable)
            /\ pc' = "seed"
            /\ UNCHANGED error
    /\ UNCHANGED <<call, input_variables, scaling_variable, n_dims, pos,
                   scaled_variables, exp_num, output_variables>>

\* lines 125-129, and the entry of the loop of line 133
SeedScaledVariables ==
    /\ pc = "seed"
    /\ scaled_variables' = SeedAll(input_variables)
    /\ exp_num' = 0
    /\ pc' = IF num_exprs - 1 > 0 THEN "scale" ELSE "unpack"
    /\ UNCHANGED <<call, input_variables, scaling_variable, n_dims, pos,
                   scaling_order_index, output_variables, error>>

\* ScaleExperiment appending to the caller's lists: the accumulators are
\* the input's own values, which end up as the values last appended
ScaleExperimentInPlace ==
    /\ pc = "scale"
    /\ IF ScaleRaises(scaled_variables, scaling_order_index)
       THEN /\ Raise(ZeroDivisionError)
            /\ UNCHANGED <<scaled_variables, exp_num, input_variables>>
       ELSE /\ scaled_variables' =
                   ScaleAll(scaled_variables, scaling_order_index, exp_num, scaling_factor)
            /\ input_variables' =
                   [i \in DOMAIN input_variables |->
                       Entry(input_variables[i].k,
                             IF IsList(input_variables[i].v)
                             THEN ListVal([j \in DOMAIN scaled_variables'[i] |->
                                              Last(scaled_variables'[i][j])], TRUE)
                             ELSE IntVal(Last(scaled_variables'[i][1])))]
            /\ exp_num' = exp_num + 1
            /\ pc' = IF exp_num + 1 < num_exprs - 1 THEN "scale" ELSE "unpack"
            /\ UNCHANGED error
    /\ UNCHANGED <<call, scaling_variable, n_dims, pos,
                   scaling_order_index, output_variables>>

\* lines 133-144, one experiment
ScaleExperiment ==
    /\ pc = "scale"
    /\ IF ScaleRaises(scaled_variables, scaling_order_index)
       THEN /\ Raise(ZeroDivisionError)
            /\ UNCHANGED <<scaled_variables, exp_num>>
       ELSE /\ scaled_variables' =
                   ScaleAll(scaled_variables, scaling_order_index, exp_num, scaling_factor)
            /\ exp_num' = exp_num + 1
            /\ pc' = IF exp_num + 1 < num_exprs - 1 THEN "scale" ELSE "unpack"
            /\ UNCHANGED error
    /\ UNCHANGED <<call, input_variables, scaling_variable, n_dims, pos,
                   scaling_order_index, output_variables>>

\* lines 146-153
UnpackOutput ==
    /\ pc = "unpack"
    /\ output_variables' = Unpack(input_variables, scaled_variables)
    /\ pc' = "returned"
    /\ UNCHANGED <<call, input_variables, scaling_variable, n_dims, pos,
                   scaling_order_index, scaled_variables, exp_num, error>>

\* lines 39-52, called by itself
PlanCall ==
    /\ pc = "configure_scaling_policy"
    /\ IF PolicyError(input_variables, scaling_variable) # NoError
       THEN /\ Raise(PolicyError(input_variables, scaling_variable))
            /\ UNCHANGED scaling_order_index
       ELSE /\ scaling_order_index' =
                   configure_scaling_policy(input_variables, scaling_variable)
            /\ pc' = "returned"
            /\ UNCHANGED error
    /\ UNCHANGED <<call, input_variables, scaling_variable, n_dims, pos,
                   scaled_variables, exp_num, output_variables>>

Next ==
    \/ GenerateStrong
    \/ GenerateThroughput
    \/ GenerateWeak
    \/ CheckEmpty
    \/ ResolveDriver
    \/ ValidateStep
    \/ ConfigurePolicy
    \/ SeedScaledVariables
    \/ ScaleExperiment
    \/ UnpackOutput
    \/ PlanCall

Spec == Init /\ [][Next]_vars

Done == pc \in {"returned", "raised"}
Outcome == [status |-> pc, error |-> error, output |-> output_variables]

\* the step-by-step run ends as the function of the arguments says
RunMatchesFunction ==
    (Done /\ call.op # "configure_scaling_policy") =>
        Outcome =
          CASE call.op = "scale_experiment_variables" ->
                 Sweep(call.input_variables, scaling_factor, num_exprs, call.scaling_variable)
            [] call.op = "generate_strong_scaling_params" ->
                 generate_strong_scaling_params(call.resource_variable, scaling_factor, num_exprs)
            [] call.op = "generate_throughput_scaling_params" ->
                 generate_throughput_scaling_params(call.problem_size_variables, scaling_factor, num_exprs)
            [] call.op = "generate_weak_scaling_params" ->
                 generate_weak_scaling_params(call.resource_variable,
                     call.problem_size_variables, scaling_factor, num_exprs)

(***************************************************************************)
(* Properties.                                                             *)
(***************************************************************************)
SweepCall == call.op # "configure_scaling_policy"
PolicyCall == call.op = "configure_scaling_policy"
factor == scaling_factor
count == num_exprs

TupleEntries(d) == {i \in DOMAIN d : d[i].k.t = "tuple"}
ScalarEntryIndices(d) == {i \in DOMAIN d : d[i].k.t = "str"}

\* an entry of the right types whose key and value lengths agree
EntryOK(e) ==
    \/ IsStr(e.k) /\ IsInt(e.v)
    \/ IsTupleOfStr(e.k) /\ IsListOfInt(e.v) /\ Len(e.k.names) = Len(e.v.l)

\* every tuple entry has k dimensions
SharedDims(d, k) == \A i \in TupleEntries(d) : Len(d[i].v.l) = k

\* a variable set of the data model: entries of the right types and shapes,
\* and tuples of one dimensionality k >= 1
WellFormed(d) ==
    /\ d # <<>>
    /\ \A i \in DOMAIN d : EntryOK(d[i])
    /\ \E k \in 1..(MaxDims + 1) : SharedDims(d, k)

\* the driver of the call is None or a key of the set
DriverGivenOK(d, key) == key = NoneKey \/ HasKey(d, key)

\* the keys of the output: every scalar name and every component name
OutputNames(d) ==
    {d[i].k.s : i \in ScalarEntryIndices(d)}
    \cup UNION {{d[i].k.names[j] : j \in DOMAIN d[i].k.names} : i \in TupleEntries(d)}

\* C1: in a validated set whose tuple entries share k >= 2 dimensions, for each
\* experiment e done and each tuple-keyed variable, dimension d's value at
\* experiment e+1 is its value at e times factor when d is
\* scaling_order_index[e mod k], and its value at e otherwise; the selected
\* dimension is one of 0..k-1 and the same for every tuple-keyed variable; the
\* result returned holds these sequences under the component names.
C1_OneDimensionPerExperiment ==
    (SweepCall /\ pc \in {"scale", "unpack", "returned"} /\ input_variables # <<>>) =>
        \A k \in 2..(MaxDims + 1) :
            (TupleEntries(input_variables) # {} /\ SharedDims(input_variables, k)) =>
                /\ Len(scaling_order_index) = k
                /\ \A e \in 0..(exp_num - 1) :
                     LET sel == scaling_order_index[(e % k) + 1]
                     IN  /\ sel \in 0..(k - 1)
                         /\ \A i \in TupleEntries(input_variables) :
                              \A d \in 0..(k - 1) :
                                 LET acc == scaled_variables[i][d + 1]
                                 IN  acc[e + 2] = IF d = sel THEN acc[e + 1] * factor
                                                  ELSE acc[e + 1]
                /\ (pc = "returned" /\ count >= 2) =>
                     /\ exp_num = count - 1
                     /\ \A i \in TupleEntries(input_variables) :
                          \A d \in 1..k :
                             output_variables[input_variables[i].k.names[d]]
                               = ListVal(scaled_variables[i][d], TRUE)

C1_Witness ==
    /\ call.op = "scale_experiment_variables"
    /\ pc = "returned"
    /\ count >= 4
    /\ Cardinality(TupleEntries(input_variables)) = 2
    /\ SharedDims(input_variables, 2)
    /\ scaling_order_index = <<1, 0>>

\* the list-valued entries of a dict, and those of them that are not empty
Lists(d) == {i \in DOMAIN d : IsList(d[i].v)}
NonEmptyLists(d) == {i \in Lists(d) : d[i].v.l # <<>>}

\* order is the rotation of 0..k-1 that starts at the first position of the
\* smallest element of the driver's list, at 0 for a scalar driver
RotationFromMin(order, k, val) ==
    /\ Len(order) = k
    /\ {order[i] : i \in 1..k} = 0..(k - 1)
    /\ \A i \in 1..k : order[i] = (order[1] + (i - 1)) % k
    /\ IF IsList(val)
       THEN /\ order[1] + 1 \in DOMAIN val.l
            /\ \A j \in DOMAIN val.l : val.l[order[1] + 1] <= val.l[j]
            /\ \A j \in 1..order[1] : val.l[j] > val.l[order[1] + 1]
       ELSE order[1] = 0

\* the entries are of the right types and shapes
WellTyped(d) == \A i \in DOMAIN d : EntryOK(d[i])

\* C2 as stated: when the non-empty tuple-valued entries of the set share k
\* dimensions and the driver is a key, configure_scaling_policy returns the
\* rotation of 0..k-1 starting at the driver's first minimum.
C2_AsStated ==
    (PolicyCall /\ Done /\ WellTyped(input_variables)
        /\ HasKey(input_variables, call.scaling_variable)) =>
        \A k \in 1..(MaxDims + 1) :
            (/\ NonEmptyLists(input_variables) # {}
             /\ \A i \in NonEmptyLists(input_variables) : Len(input_variables[i].v.l) = k) =>
                /\ pc = "returned"
                /\ RotationFromMin(scaling_order_index, k,
                                   Lookup(input_variables, call.scaling_variable))

\* C2, amended: when the set has tuple-valued entries, all of them non-empty
\* and of k dimensions, and the driver is a key, configure_scaling_policy
\* returns the rotation of 0..k-1 starting at the driver's first minimum.
C2_RotationFromMin ==
    (PolicyCall /\ Done /\ WellTyped(input_variables)
        /\ HasKey(input_variables, call.scaling_variable)) =>
        \A k \in 1..(MaxDims + 1) :
            (/\ Lists(input_variables) # {}
             /\ \A i \in Lists(input_variables) : Len(input_variables[i].v.l) = k) =>
                /\ pc = "returned"
                /\ RotationFromMin(scaling_order_index, k,
                                   Lookup(input_variables, call.scaling_variable))

C2_Witness ==
    /\ PolicyCall
    /\ pc = "returned"
    /\ Cardinality(Lists(input_variables)) = 2
    /\ \A i \in Lists(input_variables) : Len(input_variables[i].v.l) = 2
    /\ IsList(Lookup(input_variables, call.scaling_variable))
    /\ scaling_order_index = <<1, 0>>

\* a set of one tuple variable, which is the driver
SingleTuple(d, key) ==
    /\ Len(d) = 1
    /\ d[1].k.t = "tuple"
    /\ key \in {NoneKey, d[1].k}

\* C3: for a set of one tuple variable of k >= 1 dimensions that is the
\* driver, after m = count-1 >= k steps every dimension has been multiplied
\* by factor floor(m/k) or ceil(m/k) times, and the product of the final
\* values is factor^m times the product of the base values.
C3_RoundRobinFairness ==
    (SweepCall /\ Done /\ SingleTuple(input_variables, call.scaling_variable)
        /\ EntryOK(input_variables[1])) =>
        LET k == Len(input_variables[1].v.l)
            m == count - 1
            base == input_variables[1].v.l
            names == input_variables[1].k.names
            lo == m \div k
            hi == IF m % k = 0 THEN m \div k ELSE (m \div k) + 1
        IN  (k >= 1 /\ m >= k) =>
                /\ pc = "returned"
                /\ \A d \in 1..k :
                     /\ output_variables[names[d]].t = "list"
                     /\ Len(output_variables[names[d]].l) = count
                     /\ Last(output_variables[names[d]].l)
                          \in {base[d] * Pow(factor, lo), base[d] * Pow(factor, hi)}
                /\ Product([d \in 1..k |-> Last(output_variables[names[d]].l)])
                     = Pow(factor, m) * Product(base)

C3_Witness ==
    /\ call.op = "scale_experiment_variables"
    /\ pc = "returned"
    /\ SingleTuple(input_variables, call.scaling_variable)
    /\ Len(input_variables[1].v.l) = 2
    /\ count = 4
    /\ output_variables["a1"] = ListVal(<<2, 2, 4, 4>>, TRUE)
    /\ output_variables["a2"] = ListVal(<<1, 2, 2, 4>>, TRUE)

\* C4: where a sweep of count >= 2 experiments returns, every scalar-keyed
\* variable holds base * factor^e at each experiment e in 0..count-1,
\* whatever tuple-keyed variables the set holds besides; and the sweep of a
\* well-formed set with a valid driver does return.
C4_ScalarsScaleEveryExperiment ==
    (SweepCall /\ Done /\ count >= 2 /\ input_variables # <<>>) =>
        /\ (WellFormed(input_variables)
               /\ DriverGivenOK(input_variables, call.scaling_variable))
             => pc = "returned"
        /\ pc = "returned" =>
             \A i \in ScalarEntryIndices(input_variables) :
                output_variables[input_variables[i].k.s]
                  = ListVal([e \in 1..count |-> input_variables[i].v.n * Pow(factor, e - 1)],
                            TRUE)

C4_Witness ==
    /\ call.op = "scale_experiment_variables"
    /\ pc = "returned"
    /\ count = 4
    /\ Len(input_variables) = 3
    /\ SharedDims(input_variables, 2)
    /\ output_variables["x"] = ListVal(<<3, 6, 12, 24>>, TRUE)

\* C5: where a sweep of count = 1 returns, the result maps every scalar name
\* and every component name of every tuple key to its base value as a bare
\* integer, for every factor; and the sweep of a well-formed set with a valid
\* driver does return.
C5_CountOneReturnsBaseValues ==
    (SweepCall /\ Done /\ count = 1 /\ input_variables # <<>>) =>
        /\ (WellFormed(input_variables)
               /\ DriverGivenOK(input_variables, call.scaling_variable))
             => pc = "returned"
        /\ pc = "returned" =>
             /\ DOMAIN output_variables = OutputNames(input_variables)
             /\ \A i \in ScalarEntryIndices(input_variables) :
                  output_variables[input_variables[i].k.s] = IntVal(input_variables[i].v.n)
             /\ \A i \in TupleEntries(input_variables) :
                  \A j \in DOMAIN input_variables[i].k.names :
                     output_variables[input_variables[i].k.names[j]]
                       = IntVal(input_variables[i].v.l[j])

C5_Witness ==
    /\ call.op = "scale_experiment_variables"
    /\ pc = "returned"
    /\ count = 1
    /\ factor = 3
    /\ Len(input_variables) = 3
    /\ SharedDims(input_variables, 2)
    /\ output_variables["x"] = IntVal(3)
    /\ output_variables["b1"] = IntVal(4)

\* C6 as stated: a sweep of a set of individually valid entries with a valid
\* driver, two of whose tuple-valued entries differ in length, raises the
\* dimension-mismatch error before anything is generated, the empty tuple
\* with the empty list included.
C6_DimensionMismatchRaised ==
    (/\ call.op = "scale_experiment_variables"
     /\ Done
     /\ \A i \in DOMAIN input_variables : EntryOK(input_variables[i])
     /\ DriverGivenOK(input_variables, call.scaling_variable)
     /\ \E i, j \in TupleEntries(input_variables) :
            Len(input_variables[i].v.l) # Len(input_variables[j].v.l)) =>
        /\ pc = "raised"
        /\ error = DimMismatch
        /\ scaled_variables = <<>>

\* C7 as stated: the sweep of an empty set returns the empty result whatever
\* the driver; for a non-empty set, no driver gives what passing the first
\* key gives, and a driver that is given and is not a key raises the
\* invalid-driver error, whatever the entries are.
C7_DriverResolution ==
    (call.op = "scale_experiment_variables" /\ Done) =>
        /\ call.input_variables = <<>> =>
             (pc = "returned" /\ output_variables = EmptyDict)
        /\ (call.input_variables # <<>> /\ call.scaling_variable = NoneKey) =>
             Outcome = Sweep(call.input_variables, factor, count,
                             FirstKey(call.input_variables))
        /\ (/\ call.input_variables # <<>>
            /\ call.scaling_variable # NoneKey
            /\ ~HasKey(call.input_variables, call.scaling_variable)) =>
             (pc = "raised" /\ error = InvalidDriver /\ scaled_variables = <<>>)

\* the keys both groups of a weak-scaling call have
SharedKeys == Keys(call.resource_variable) \cap Keys(call.problem_size_variables)

\* the set generate_weak_scaling_params passes on holds every key of both
\* groups, the resource group's first, and the driver is the first of them
WeakMergeKeys ==
    /\ Keys(input_variables)
         = Keys(call.resource_variable) \cup Keys(call.problem_size_variables)
    /\ DistinctKeys(input_variables)
    /\ \A i \in DOMAIN call.resource_variable :
          input_variables[i].k = call.resource_variable[i].k
    /\ \A key \in Keys(call.resource_variable) \ SharedKeys :
          Lookup(input_variables, key) = Lookup(call.resource_variable, key)
    /\ \A key \in Keys(call.problem_size_variables) \ SharedKeys :
          Lookup(input_variables, key) = Lookup(call.problem_size_variables, key)
    /\ scaling_variable = FirstKey(call.resource_variable)
    /\ HasKey(input_variables, scaling_variable)

\* the base value the sweep starts the variable at position i from
SweptBase(i) ==
    IF IsList(input_variables[i].v)
    THEN ListVal([j \in DOMAIN scaled_variables[i] |-> scaled_variables[i][j][1]], TRUE)
    ELSE IntVal(scaled_variables[i][1][1])

\* C8 as stated: the merged set of a weak-scaling call holds the resource
\* group's value of a key both groups have, and that value is swept; the
\* driver passed on is the first key of the resource group, a key of the
\* merged set.
C8_AsStated ==
    (call.op = "generate_weak_scaling_params"
        /\ pc \notin {"generate_weak_scaling_params", "raised"}) =>
        /\ WeakMergeKeys
        /\ \A key \in SharedKeys :
             /\ Lookup(input_variables, key) = Lookup(call.resource_variable, key)
             /\ scaled_variables # <<>> =>
                  SweptBase(IndexOf(input_variables, key))
                    = Lookup(call.resource_variable, key)

\* C8, amended: the merged set holds the problem-size group's value of a key
\* both groups have, and that value is swept; the driver passed on is the
\* first key of the resource group, a key of the merged set.
C8_ProblemSizeValueWins ==
    (call.op = "generate_weak_scaling_params"
        /\ pc \notin {"generate_weak_scaling_params", "raised"}) =>
        /\ WeakMergeKeys
        /\ \A key \in SharedKeys :
             /\ Lookup(input_variables, key) = Lookup(call.problem_size_variables, key)
             /\ scaled_variables # <<>> =>
                  SweptBase(IndexOf(input_variables, key))
                    = Lookup(call.problem_size_variables, key)

C8_Witness ==
    /\ call.op = "generate_weak_scaling_params"
    /\ pc = "returned"
    /\ count = 3
    /\ factor = 2
    /\ Len(call.resource_variable) = 2
    /\ call.resource_variable
         = <<Entry(StrKey("y"), IntVal(5)), Entry(StrKey("x"), IntVal(3))>>
    /\ SharedKeys = {StrKey("x")}
    /\ Lookup(call.problem_size_variables, StrKey("x")) = IntVal(7)
    /\ scaling_variable = StrKey("y")
    /\ output_variables["x"] = ListVal(<<7, 14, 28>>, TRUE)
    /\ output_variables["z"] = ListVal(<<9, 18, 36>>, TRUE)

\* C9 as stated: a weak-scaling call with an empty problem-size group ends
\* as the strong-scaling call on the same resource group does: the same
\* result or the same error, the empty resource group included.
C9_WeakEqualsStrong ==
    (call.op = "generate_weak_scaling_params" /\ Done
        /\ call.problem_size_variables = <<>>) =>
        Outcome = generate_strong_scaling_params(call.resource_variable, factor, count)

\* the variable set scale_experiment_variables or configure_scaling_policy
\* was handed, as it was at the call
PassedSet ==
    CASE call.op = "generate_strong_scaling_params" -> call.resource_variable
      [] call.op = "generate_throughput_scaling_params" -> call.problem_size_variables
      [] call.op = "generate_weak_scaling_params" ->
            DictUnion(call.resource_variable, call.problem_size_variables)
      [] OTHER -> call.input_variables

InSelector ==
    pc \in {"generate_strong_scaling_params", "generate_throughput_scaling_params",
            "generate_weak_scaling_params"}

\* C10: at every step of a call of configure_scaling_policy or
\* scale_experiment_variables, and when it has returned or raised, the
\* variable set it was handed has the keys, the order and the values it had
\* at the call; the call repeated on the set as it is then ends as this one.
C10_InputsUnchanged ==
    /\ (~InSelector /\ ~(pc = "raised" /\ error = StopIteration)) =>
          input_variables = PassedSet
    /\ (Done /\ call.op = "scale_experiment_variables") =>
          Outcome = Sweep(input_variables, factor, count, call.scaling_variable)
    /\ (Done /\ PolicyCall) =>
          /\ (pc = "raised") = (PolicyError(input_variables, call.scaling_variable) # NoError)
          /\ pc = "returned" =>
                scaling_order_index
                  = configure_scaling_policy(input_variables, call.scaling_variable)

C10_Witness ==
    /\ call.op = "scale_experiment_variables"
    /\ pc = "returned"
    /\ exp_num = 3
    /\ Len(input_variables) = 3
    /\ SharedDims(input_variables, 2)
    /\ input_variables = call.input_variables
    /\ output_variables["a2"] = ListVal(<<1, 2, 2, 4>>, TRUE)

=============================================================================
